---- MODULE Spec2Model ----
(***************************************************************************)
(* Model of the template merge / removal engine of beast_utils             *)
(* (src/src/beast_utils/templating.py), of the IQ-TREE partition string    *)
(* parser (beast_utils/substitution_model/iqtree/read_model_test.py) and   *)
(* of SubstitutionModel.update_model_name                                  *)
(* (src/src/beast/substitution_model/substitution_model.py).               *)
(*                                                                         *)
(* An XML element is a record [tag, attrib, text, kids]; kids is the       *)
(* ordered sequence of child elements.  Python positions (list indices)    *)
(* are kept 0-based as in the source; TLA+ sequences are 1-based, so the   *)
(* helpers convert at the point of use.                                    *)
(***************************************************************************)
EXTENDS Integers, Sequences, FiniteSets, TLC

\* ------------------------------------------------------------------ bounds
MaxTargetNodes == 3     \* elements below the root of the target document
MaxTemplateNodes == 3   \* elements below the root of the template
MaxNesting == 2         \* nesting depth below the root in both documents
MaxMismatchNodes == 1   \* the same, in the documents whose roots may differ
MaxCalls == 1           \* engine calls made on one document
MaxParentNodes == 2     \* elements below the parent handed to add_element
MaxAddedNodes == 2      \* elements of the templates handed to add_element
MaxFlatChildren == 2    \* childless children of the parents handed to the matcher
MaxDeepNodes == 3       \* elements of the freely nested documents
MaxStart == 2           \* first column of a range in a partition string
MaxColumn == 13         \* last column named in a partition string
MaxComponents == 2      \* components of a partition string
MaxModels == 2          \* SubstitutionModel instances
MaxModelNodes == 2      \* elements below the root of a substitution model tree
MaxRenames == 2         \* calls of update_model_name
MaxRunNodes == 2        \* elements of the documents of a call followed step by step

\* ------------------------------------------------------------- node model
None == "None"          \* Python's None: attribute absent, no text

\* An optional integer (a position argument that may be None, a local
\* variable that may be unassigned) is <<>> or <<n>>.
Nothing == <<>>
Some(n) == <<n>>

Attrib(id, idref, name, version) ==
    [id |-> id, idref |-> idref, name |-> name, version |-> version]

Element(tag, attrib, text, kids) ==
    [tag |-> tag, attrib |-> attrib, text |-> text, kids |-> kids]

\* element.get(key)
Get(element, key) == element.attrib[key]

\* Python's `a or b or c` over attribute values: the first truthy one, else
\* the last operand (None and the empty string are falsy)
Falsy(v) == v = None \/ v = ""
IdOrIdrefOrName(element) ==
    IF ~Falsy(Get(element, "id")) THEN Get(element, "id")
    ELSE IF ~Falsy(Get(element, "idref")) THEN Get(element, "idref")
    ELSE Get(element, "name")

\* outcomes of a call
Ok == "ok"
FormatError == "ValueError: outer tag or version"
RemovalError == "ValueError: element to be removed does not exist"
UnboundLocalError == "UnboundLocalError"

\* ------------------------------------------------------- sequence helpers
\* a variant that stores the element at the position instead of inserting it
InsertChildOver(parent, position, element) ==
    IF position = Nothing \/ position[1] >= Len(parent.kids)
    THEN [parent EXCEPT !.kids = Append(parent.kids, element)]
    ELSE [parent EXCEPT !.kids[position[1] + 1] = element]

\* parent.insert(position, element): list semantics, past the end appends
InsertChild(parent, position, element) ==
    LET n == Len(parent.kids) IN
    IF position = Nothing \/ position[1] >= n
    THEN [parent EXCEPT !.kids = Append(parent.kids, element)]
    ELSE [parent EXCEPT !.kids =
            SubSeq(parent.kids, 1, position[1]) \o <<element>>
            \o SubSeq(parent.kids, position[1] + 1, n)]

\* index (1-based) at which InsertChild puts the element
InsertedAt(parent, position) ==
    IF position = Nothing \/ position[1] >= Len(parent.kids)
    THEN Len(parent.kids) + 1
    ELSE position[1] + 1

\* parent.remove(child), child being the k-th child (1-based)
RemoveChild(parent, k) ==
    [parent EXCEPT !.kids =
        SubSeq(parent.kids, 1, k - 1) \o SubSeq(parent.kids, k + 1, Len(parent.kids))]

\* the in-place change of the k-th child seen from its parent
SetChild(parent, k, element) == [parent EXCEPT !.kids[k] = element]

\* ------------------------------------------------------ _prepare_template
\* a variant that checks the outer tags only
PrepareTemplateTagsOnly(root, template_root) ==
    IF root.tag # "beast" THEN FormatError
    ELSE IF template_root.tag # "beast" THEN FormatError
    ELSE Ok

PrepareTemplate(root, template_root) ==
    IF root.tag # "beast" THEN FormatError
    ELSE IF template_root.tag # "beast" THEN FormatError
    ELSE IF Get(root, "version") # Get(template_root, "version") THEN FormatError
    ELSE Ok

\* ------------------------------------------------ _find_candidate_matches
\* parent.findall(search_string): the direct children, in document order,
\* given by their indices (1-based) in parent.kids
SearchKey(template) ==
    IF Get(template, "id") # None THEN "id"
    ELSE IF Get(template, "idref") # None THEN "idref"
    ELSE IF Get(template, "name") # None THEN "name"
    ELSE None

\* a variant that searches by tag alone
FindCandidateMatchesByTag(parent, template) ==
    LET RECURSIVE scan(_)
        scan(k) == IF k > Len(parent.kids) THEN <<>>
                   ELSE IF parent.kids[k].tag = template.tag THEN <<k>> \o scan(k + 1)
                   ELSE scan(k + 1)
    IN scan(1)

FindCandidateMatches(parent, template) ==
    LET key == SearchKey(template)
        hit(k) == /\ parent.kids[k].tag = template.tag
                  /\ key # None => Get(parent.kids[k], key) = Get(template, key)
        RECURSIVE scan(_)
        scan(k) == IF k > Len(parent.kids) THEN <<>>
                   ELSE IF hit(k) THEN <<k>> \o scan(k + 1)
                   ELSE scan(k + 1)
    IN scan(1)

\* --------------------------------------------------------- _match_subtrees
\* The function returns True, False or (falling off the loop over an empty
\* candidate list) None; every caller only tests truthiness, so None is FALSE.
\* the elements at the given indices of parent.kids
ChildrenAt(parent, indices) == [k \in 1..Len(indices) |-> parent.kids[indices[k]]]

\* the branch for a template without children
LeafMatch(parent, template) ==
    IF template.tag # parent.tag THEN FALSE
    ELSE IF IdOrIdrefOrName(template) = None THEN TRUE
    ELSE IdOrIdrefOrName(template) = IdOrIdrefOrName(parent)

RECURSIVE MatchSubtrees(_, _, _)
RECURSIVE MatchCandidates(_, _)
MatchSubtrees(parent, template, top_level) ==
    IF Len(template.kids) = 0 THEN LeafMatch(parent, template)
    ELSE IF top_level THEN MatchCandidates(<<parent>>, template)
    ELSE MatchCandidates(ChildrenAt(parent, FindCandidateMatches(parent, template)),
                         template)

\* `for cand in candidates`: the loop body returns in its first iteration,
\* so only candidates[0] is examined
MatchCandidates(candidates, template) ==
    IF Len(candidates) = 0 THEN FALSE
    ELSE \A c \in 1..Len(template.kids) :
            \/ template.kids[c].tag = "comment"
            \/ MatchSubtrees(candidates[1], template.kids[c], FALSE)

\* ------------------------------------------------------------- add_element
\* a variant that compares the template's id with the child's idref
ExistingElementByIdref(parent, template) ==
    IF Get(template, "id") = None THEN 0
    ELSE LET hits == {k \in 1..Len(parent.kids) :
                         /\ parent.kids[k].tag = template.tag
                         /\ Get(parent.kids[k], "idref") = Get(template, "id")}
         IN IF hits = {} THEN 0 ELSE CHOOSE k \in hits : \A j \in hits : k <= j

\* a variant that looks the element up by its identity key: id, else idref,
\* else name
ExistingElementByKey(parent, template) ==
    IF SearchKey(template) = None THEN 0
    ELSE IF Len(FindCandidateMatches(parent, template)) = 0 THEN 0
    ELSE FindCandidateMatches(parent, template)[1]

\* a variant that takes the last child with the template's tag and id
ExistingElementLast(parent, template) ==
    IF Get(template, "id") = None THEN 0
    ELSE LET hits == {k \in 1..Len(parent.kids) :
                         /\ parent.kids[k].tag = template.tag
                         /\ Get(parent.kids[k], "id") = Get(template, "id")}
         IN IF hits = {} THEN 0 ELSE CHOOSE k \in hits : \A j \in hits : k >= j

\* the first child with the template's tag and id (1-based), 0 when the
\* template has no id or no child matches
ExistingElement(parent, template) ==
    IF Get(template, "id") = None THEN 0
    ELSE LET hits == {k \in 1..Len(parent.kids) :
                         /\ parent.kids[k].tag = template.tag
                         /\ Get(parent.kids[k], "id") = Get(template, "id")}
         IN IF hits = {} THEN 0 ELSE CHOOSE k \in hits : \A j \in hits : k <= j

\* parent.makeelement(template.tag, template.attrib): no text, no children
MakeElement(template) == Element(template.tag, template.attrib, None, <<>>)

RECURSIVE AddElement(_, _, _)
RECURSIVE AddChildren(_, _, _)
RECURSIVE AddBelow(_, _, _)
\* a variant that moves the element it merges into to the end of its parent
AddBelowMovingLast(parent, at, template) ==
    [parent EXCEPT !.kids =
        RemoveChild(parent, at).kids
        \o <<AddChildren(parent.kids[at], template.kids, 1)>>]

AddElement(parent, template, position) ==
    IF ExistingElement(parent, template) = 0
    THEN AddBelow(InsertChild(parent, position, MakeElement(template)),
                  InsertedAt(parent, position), template)
    ELSE AddBelow(parent, ExistingElement(parent, template), template)

\* "Add children" below existing_element, the child of parent at index `at`
AddBelow(parent, at, template) ==
    SetChild(parent, at, AddChildren(parent.kids[at], template.kids, 1))

\* for child in template.getchildren(): add_element(existing_element, child)
AddChildren(element, children, k) ==
    IF k > Len(children) THEN element
    ELSE AddChildren(AddElement(element, children[k], Nothing), children, k + 1)

\* ---------------------------------------------------------- remove_element
\* Result: the parent as the call left it (changes are made in place and
\* stay when the call raises), whether it raised, and the warnings emitted.
IsComment(element) == element.tag = "comment"
NonComment(children) == SelectSeq(children, LAMBDA c : ~IsComment(c))

Raised(node, warned) == [node |-> node, err |-> TRUE, warned |-> warned]
Returned(node, warned) == [node |-> node, err |-> FALSE, warned |-> warned]

\* `for cand in candidates: if _match_subtrees(cand, template)`: the index in
\* parent.kids of the first candidate that matches, 0 when none does
RemovalParent(parent, template, candidates) ==
    LET matching == {k \in 1..Len(candidates) :
                        MatchSubtrees(parent.kids[candidates[k]], template, TRUE)}
    IN IF matching = {} THEN 0
       ELSE candidates[CHOOSE k \in matching : \A j \in matching : k <= j]

\* a variant that takes the last candidate
LastCandidate(candidates) == candidates[Len(candidates)]

\* candidates[0], the element the childless branch removes
FirstCandidate(candidates) == candidates[1]

\* the warning of the childless branch
MultipleMatches(candidates) == IF Len(candidates) > 1 THEN 1 ELSE 0

\* "If all children have been removed, remove the parent too": r is the
\* outcome of the removals below removal_parent, the child of parent at `at`
RemoveParentToo(parent, at, original_children, removal_children, r) ==
    IF r.err THEN Raised(SetChild(parent, at, r.node), r.warned)
    ELSE IF Len(original_children) = Len(removal_children)
    THEN Returned(RemoveChild(parent, at), r.warned)
    ELSE Returned(SetChild(parent, at, r.node), r.warned)

RECURSIVE RemoveElement(_, _)
RECURSIVE RemoveChildren(_, _, _, _)
RECURSIVE RemoveBelow(_, _, _)
RECURSIVE RemoveNext(_, _, _, _)
RemoveElement(parent, template) ==
    IF Len(FindCandidateMatches(parent, template)) = 0 THEN Raised(parent, 0)
    ELSE IF Len(template.kids) = 0
    THEN Returned(RemoveChild(parent, FirstCandidate(FindCandidateMatches(parent, template))),
                  MultipleMatches(FindCandidateMatches(parent, template)))
    ELSE RemoveBelow(parent, template,
                     RemovalParent(parent, template, FindCandidateMatches(parent, template)))

\* the part of remove_element after the search for removal_parent
RemoveBelow(parent, template, at) ==
    IF at = 0 THEN Raised(parent, 0)
    ELSE RemoveParentToo(parent, at,
                         NonComment(parent.kids[at].kids), NonComment(template.kids),
                         RemoveChildren(parent.kids[at], NonComment(template.kids), 1, 0))

\* for child in removal_children: remove_element(removal_parent, child)
RemoveChildren(element, children, k, warned) ==
    IF k > Len(children) THEN Returned(element, warned)
    ELSE RemoveNext(RemoveElement(element, children[k]), children, k, warned)

\* the loop goes on unless the call raised
RemoveNext(r, children, k, warned) ==
    IF r.err THEN Raised(r.node, warned + r.warned)
    ELSE RemoveChildren(r.node, children, k + 1, warned + r.warned)

\* ---------------------------------------------------- update_from_template
\* 0-based index of the first child tagged <operators>, or the length of
\* the sequence when there is none
FirstOperators(children) ==
    LET hits == {k \in 1..Len(children) : children[k].tag = "operators"}
    IN IF hits = {} THEN Len(children)
       ELSE (CHOOSE k \in hits : \A j \in hits : k <= j) - 1

\* a variant that starts one past the <operators> element
AnchorPositionPast(root) ==
    IF Len(root.kids) = 0 THEN Nothing
    ELSE IF FirstOperators(root.kids) < Len(root.kids)
    THEN Some(FirstOperators(root.kids) + 1)
    ELSE Some(Len(root.kids) - 1)

\* `for position, child in enumerate(root.iterchildren())` with its break:
\* the index of <operators>, else the index of the last child, else unbound
AnchorPosition(root) ==
    IF Len(root.kids) = 0 THEN Nothing
    ELSE IF FirstOperators(root.kids) < Len(root.kids)
    THEN Some(FirstOperators(root.kids))
    ELSE Some(Len(root.kids) - 1)

\* the value of i after `for i, child in enumerate(template_children)`
LoopIndex(template_children) ==
    IF Len(template_children) = 0 THEN Nothing
    ELSE IF FirstOperators(template_children) < Len(template_children)
    THEN Some(FirstOperators(template_children))
    ELSE Some(Len(template_children) - 1)

\* the loop "Add elements before <operators> tag", from template child k
\* (0-based) with the given position
RECURSIVE AddBefore(_, _, _, _)
AddBefore(root, template_children, k, position) ==
    IF k >= FirstOperators(template_children) THEN root
    ELSE AddBefore(AddElement(root, template_children[k + 1], Some(position)),
                   template_children, k + 1, position + 1)

\* the loop over template_children[i:], from template child k (0-based)
RECURSIVE AddRemaining(_, _, _)
AddRemaining(root, template_children, k) ==
    IF k >= Len(template_children) THEN root
    ELSE AddRemaining(AddElement(root, template_children[k + 1], Nothing),
                      template_children, k + 1)

\* the outcome of a call on the document: the tree as the call left it
Outcome(root, result, warned) == [tree |-> root, result |-> result, warned |-> warned]

\* "Add any remaining children": template_children[i:] with i unassigned raises
UpdateRemaining(root, template_children, i) ==
    IF i = Nothing THEN Outcome(root, UnboundLocalError, 0)
    ELSE Outcome(AddRemaining(root, template_children, i[1]), Ok, 0)

\* the body of `if before_operators or template_contains_operators`, then the
\* rest; add_element(root, child, position=position) with position unassigned
\* raises
UpdateBefore(root, template_children, position) ==
    IF FirstOperators(template_children) = 0
    THEN UpdateRemaining(root, template_children, LoopIndex(template_children))
    ELSE IF position = Nothing THEN Outcome(root, UnboundLocalError, 0)
    ELSE UpdateRemaining(AddBefore(root, template_children, 0, position[1]),
                         template_children, LoopIndex(template_children))

UpdateFromTemplate(root, template_root, before_operators) ==
    IF PrepareTemplate(root, template_root) # Ok THEN Outcome(root, FormatError, 0)
    ELSE IF \/ before_operators
            \/ FirstOperators(template_root.kids) < Len(template_root.kids)
    THEN UpdateBefore(root, template_root.kids, AnchorPosition(root))
    ELSE UpdateRemaining(root, template_root.kids, Nothing)

\* ---------------------------------------------------- remove_with_template
\* what remove_with_template makes of the loop over the template's children
RemovalOutcome(r) == Outcome(r.node, IF r.err THEN RemovalError ELSE Ok, r.warned)

\* a variant that hands the tree back as it was when a removal fails
RemoveWithTemplateRollingBack(root, template_root) ==
    IF PrepareTemplate(root, template_root) # Ok THEN Outcome(root, FormatError, 0)
    ELSE IF RemoveChildren(root, template_root.kids, 1, 0).err
    THEN Outcome(root, RemovalError, 0)
    ELSE RemovalOutcome(RemoveChildren(root, template_root.kids, 1, 0))

RemoveWithTemplate(root, template_root) ==
    IF PrepareTemplate(root, template_root) # Ok THEN Outcome(root, FormatError, 0)
    ELSE RemovalOutcome(RemoveChildren(root, template_root.kids, 1, 0))

\* ------------------------------------------------------------- documents
\* attribute sets of the elements the documents are built from
TopHeads ==
    { [tag |-> "operators", attrib |-> Attrib("x", None, None, None)],
      [tag |-> "a", attrib |-> Attrib("x", None, None, None)],
      [tag |-> "a", attrib |-> Attrib(None, None, "x", None)] }

InnerHeads ==
    { [tag |-> "a", attrib |-> Attrib("x", None, None, None)] }

\* forests of exactly n elements nested at most d deep; level 1 is the
\* top level of a document
RECURSIVE Forests(_, _, _, _)
Trees(n, d, level, text) ==
    IF n = 0 \/ d = 0 THEN {}
    ELSE { Element(h.tag, h.attrib, text, kids) :
             h \in (IF level = 1 THEN TopHeads ELSE InnerHeads),
             kids \in Forests(n - 1, d - 1, level + 1, text) }
Forests(n, d, level, text) ==
    IF n = 0 THEN {<<>>}
    ELSE UNION { { <<t>> \o f : t \in Trees(k, d, level, text),
                                f \in Forests(n - k, d, level, text) } : k \in 1..n }

ForestsUpTo(n, text) == UNION { Forests(k, MaxNesting, 1, text) : k \in 0..n }

Root(tag, version, kids) ==
    Element(tag, Attrib(None, None, None, version), None, kids)

\* the outer tag and version attribute of a document
RootHeads(tags, versions) == { [tag |-> t, version |-> v] : t \in tags, v \in versions }

Documents(heads, n, text) ==
    { Root(h.tag, h.version, kids) : h \in heads, kids \in ForestsUpTo(n, text) }

\* elements parsed from the target file carry text, the template's carry another
Targets == Documents(RootHeads({"beast"}, {"1.0"}), MaxTargetNodes, "old")
Templates == Documents(RootHeads({"beast"}, {"1.0"}), MaxTemplateNodes, "new")

\* documents with any outer tag and version
AnyTargets ==
    Documents(RootHeads({"beast", "tree"}, {"1.0"}), MaxMismatchNodes, "old")
AnyTemplates ==
    Documents(RootHeads({"beast", "tree"}, {"1.0", "2.0"}), MaxMismatchNodes, "new")

\* ------------------------------------------------- _parse_partition_string
\* A Python str is the sequence of its characters.
Digits == <<"0", "1", "2", "3", "4", "5", "6", "7", "8", "9">>

ValueError == "ValueError"

IsDigit(c) == \E d \in 1..Len(Digits) : Digits[d] = c
DigitValue(c) == (CHOOSE d \in 1..Len(Digits) : Digits[d] = c) - 1

\* str(n) for n >= 0
RECURSIVE Str(_)
Str(n) ==
    IF n < Len(Digits) THEN <<Digits[n + 1]>>
    ELSE Str(n \div Len(Digits)) \o <<Digits[(n % Len(Digits)) + 1]>>

\* the value of a non-empty string of digits
RECURSIVE DigitsValue(_)
DigitsValue(s) ==
    IF Len(s) = 0 THEN 0
    ELSE DigitsValue(SubSeq(s, 1, Len(s) - 1)) * Len(Digits) + DigitValue(s[Len(s)])

\* int(s): Some(n), or Nothing where int raises ValueError (the strings at
\* hand hold digits, "-" and "\" only)
IntOf(s) ==
    IF Len(s) = 0 \/ \E k \in 1..Len(s) : ~IsDigit(s[k]) THEN Nothing
    ELSE Some(DigitsValue(s))

\* s.strip(chars): the characters of `chars` are taken off both ends
RECURSIVE LStrip(_, _)
LStrip(s, chars) ==
    IF Len(s) > 0 /\ s[1] \in chars THEN LStrip(Tail(s), chars) ELSE s
RECURSIVE RStrip(_, _)
RStrip(s, chars) ==
    IF Len(s) > 0 /\ s[Len(s)] \in chars
    THEN RStrip(SubSeq(s, 1, Len(s) - 1), chars) ELSE s
Strip(s, chars) == RStrip(LStrip(s, chars), chars)

\* s.endswith(suffix)
EndsWith(s, suffix) ==
    /\ Len(s) >= Len(suffix)
    /\ SubSeq(s, Len(s) - Len(suffix) + 1, Len(s)) = suffix

\* the index of the first character from k on that is not c, Len(s) + 1 when
\* there is none
RECURSIVE SkipRun(_, _, _)
SkipRun(s, k, c) ==
    IF k <= Len(s) /\ s[k] = c THEN SkipRun(s, k + 1, c) ELSE k

\* re.split("[ ]+", s): the pieces between runs of spaces
RECURSIVE SplitRuns(_, _, _)
SplitRuns(s, k, piece) ==
    IF k > Len(s) THEN <<piece>>
    ELSE IF s[k] = " " THEN <<piece>> \o SplitRuns(s, SkipRun(s, k, " "), <<>>)
    ELSE SplitRuns(s, k + 1, Append(piece, s[k]))

\* s.split(sep) for a separator of one character
RECURSIVE SplitAt(_, _, _, _)
SplitAt(s, sep, k, piece) ==
    IF k > Len(s) THEN <<piece>>
    ELSE IF s[k] = sep THEN <<piece>> \o SplitAt(s, sep, k + 1, <<>>)
    ELSE SplitAt(s, sep, k + 1, Append(piece, s[k]))

\* list(range(start, stop, step)) for step > 0
Range(start, stop, step) ==
    IF stop <= start THEN <<>>
    ELSE [k \in 1..(((stop - start - 1) \div step) + 1) |-> start + (k - 1) * step]

\* what the call made of the string: the list returned, or the error raised
Parsed(indices) == [done |-> TRUE, result |-> Ok, indices |-> indices]
ParseFailed == [done |-> TRUE, result |-> ValueError, indices |-> <<>>]

\* indices.extend(range(int(start), int(end) + 1, step))
ExtendRange(indices, start, end, step) ==
    IF IntOf(start) = Nothing \/ IntOf(end) = Nothing THEN ParseFailed
    ELSE Parsed(indices \o Range(IntOf(start)[1], IntOf(end)[1] + 1, step))

\* the branch for a component holding "-": start, end = component.split("-")
ParseRange(indices, parts) ==
    IF Len(parts) # 2 THEN ParseFailed
    ELSE IF EndsWith(parts[2], <<"\\", "3">>)
    THEN ExtendRange(indices, parts[1], Strip(parts[2], {"\\", "3"}), 3)
    ELSE ExtendRange(indices, parts[1], parts[2], 1)

\* the body of `for component in components`
ParseComponent(indices, component) ==
    IF \E k \in 1..Len(component) : component[k] = "-"
    THEN ParseRange(indices, SplitAt(component, "-", 1, <<>>))
    ELSE IF IntOf(component) = Nothing THEN ParseFailed
    ELSE Parsed(Append(indices, IntOf(component)[1]))

\* the loop, from component k with the indices gathered so far in r
RECURSIVE ParseComponents(_, _, _)
ParseComponents(components, k, r) ==
    IF r.result # Ok \/ k > Len(components) THEN r
    ELSE ParseComponents(components, k + 1, ParseComponent(r.indices, components[k]))

ParsePartitionString(partition_string) ==
    ParseComponents(SplitRuns(partition_string, 1, <<>>), 1, Parsed(<<>>))

\* an IQ-TREE partition: components "n", "a-b" and "a-b\3"
Components ==
    { [kind |-> "column", first |-> n, last |-> n] : n \in 1..MaxColumn }
    \cup { c \in [kind : {"range", "codons"}, first : 1..MaxStart, last : 1..MaxColumn] :
             c.first <= c.last }

RECURSIVE Partitions(_)
Partitions(n) ==
    IF n = 0 THEN {<<>>}
    ELSE { <<c>> \o p : c \in Components, p \in Partitions(n - 1) }

\* the text of one component
ComponentString(c) ==
    IF c.kind = "column" THEN Str(c.first)
    ELSE IF c.kind = "range" THEN Str(c.first) \o <<"-">> \o Str(c.last)
    ELSE Str(c.first) \o <<"-">> \o Str(c.last) \o <<"\\", "3">>

\* the text of a partition: its components, a space between them
RECURSIVE PartitionString(_)
PartitionString(p) ==
    IF Len(p) = 0 THEN <<>>
    ELSE IF Len(p) = 1 THEN ComponentString(p[1])
    ELSE ComponentString(p[1]) \o <<" ">> \o PartitionString(Tail(p))

\* -------------------------------------- SubstitutionModel.update_model_name
\* the default value of the protected_ids parameter
DefaultProtectedIds == {"operators", "mcmc", "joint", "prior", "fileLog", "screenLog"}

\* f"{name_prefix}.{cur_id}" unless cur_id is in protected_ids; None stands
\* for an attribute the element does not have
Renamed(cur_id, name_prefix, protected_ids) ==
    IF cur_id = None \/ cur_id \in protected_ids THEN cur_id
    ELSE name_prefix \o "." \o cur_id

\* the element with its id and idref attributes rewritten
RenamedElement(element, name_prefix, protected_ids) ==
    [element EXCEPT
        !.attrib.id = Renamed(element.attrib.id, name_prefix, protected_ids),
        !.attrib.idref = Renamed(element.attrib.idref, name_prefix, protected_ids)]

\* What a walk leaves: the children as rewritten and protected_ids, the one
\* list every call appends to (only membership in it is ever asked, so it is
\* kept as the set of its members).
Walked(children, protected_ids) == [kids |-> children, protected_ids |-> protected_ids]

\* `for element in model_tree.getchildren()` from child k on; id_prefix is
\* self.id_prefix, which a recursive call appends to protected_ids
RECURSIVE WalkChildren(_, _, _, _, _)
WalkBelow(children, k, name_prefix, id_prefix, below) ==
    WalkChildren([children EXCEPT ![k].kids = below.kids], k + 1,
                 name_prefix, id_prefix, below.protected_ids)
WalkElement(children, k, name_prefix, id_prefix, protected_ids) ==
    IF Len(children[k].kids) = 0
    THEN WalkChildren(children, k + 1, name_prefix, id_prefix, protected_ids)
    ELSE WalkBelow(children, k, name_prefix, id_prefix,
                   WalkChildren(children[k].kids, 1, name_prefix, id_prefix,
                                protected_ids \cup {id_prefix}))
WalkChildren(children, k, name_prefix, id_prefix, protected_ids) ==
    IF k > Len(children) THEN Walked(children, protected_ids)
    ELSE WalkElement(
             [children EXCEPT ![k] = RenamedElement(children[k], name_prefix, protected_ids)],
             k, name_prefix, id_prefix, protected_ids)

\* the top-level call, on an ElementTree: self.id_prefix is appended as it
\* was, then set to name_prefix, then the children of the root are walked
UpdateModelName(model_tree, name_prefix, id_prefix, protected_ids) ==
    WalkChildren(model_tree.kids, 1, name_prefix, name_prefix,
                 protected_ids \cup {id_prefix})

\* the prefixes models are given, and the values of id and idref attributes
Prefixes == {"codon1", "codon2"}
ModelIds == {"operators", "kappa"} \cup Prefixes

ModelHeads ==
    { [tag |-> "a", attrib |-> Attrib(v, None, None, None)] : v \in ModelIds }
    \cup { [tag |-> "a", attrib |-> Attrib(None, v, None, None)] : v \in ModelIds }

\* forests of exactly n elements of a substitution model tree
RECURSIVE ModelForests(_)
ModelElements(n) ==
    IF n = 0 THEN {}
    ELSE { Element(h.tag, h.attrib, None, kids) :
             h \in ModelHeads, kids \in ModelForests(n - 1) }
ModelForests(n) ==
    IF n = 0 THEN {<<>>}
    ELSE UNION { { <<t>> \o f : t \in ModelElements(k), f \in ModelForests(n - k) } :
                   k \in 1..n }

ModelTrees ==
    { Root("beast", "1.0", kids) :
        kids \in UNION { ModelForests(n) : n \in 0..MaxModelNodes } }

\* ------------------------------------------------------------ state machine
VARIABLES
    tree,       \* root element of the document being edited (changed in place)
    template,   \* root element of the template
    call,       \* the last call: its name, arguments and outcome
    before,     \* the tree as it was when the last call started
    calls       \* number of calls made so far

\* the last call of a matcher function: its name, arguments and return value
VARIABLES query

\* the partition string parser
VARIABLES
    partition,          \* the components the string is written from
    partition_string,   \* the argument of _parse_partition_string
    parsed              \* what the call returned or raised

parser == <<partition, partition_string, parsed>>

\* the substitution models
VARIABLES
    protected_ids,      \* the default value of update_model_name's protected_ids
    id_prefix,          \* self.id_prefix of every SubstitutionModel instance
    renamed,            \* the last call of update_model_name and what it did
    renames             \* number of calls made so far

models == <<protected_ids, id_prefix, renamed, renames>>

\* a call of the engine followed step by step
VARIABLES
    stack,              \* the frames of the calls in progress, the innermost last
    run                 \* the entry point called, how far it got, the last value returned

machine == <<stack, run>>

\* the variables outside the merge / removal engine, which its calls leave alone
outside == <<query, parser, models, machine>>

vars == <<tree, template, call, before, calls, query, parser, models, machine>>

NoQuery == [op |-> "none", parent |-> 0, child |-> 0, top_level |-> FALSE,
            candidates |-> <<>>, matched |-> FALSE]

\* the state of what is outside the engine when nothing has run there
NotParsed == [done |-> FALSE, result |-> Ok, indices |-> <<>>]
NoRename == [model |-> 0, name_prefix |-> None, id_prefix |-> None,
             model_tree |-> Root("beast", "1.0", <<>>),
             result |-> Root("beast", "1.0", <<>>)]

\* no string handed to the parser
NoParser ==
    /\ partition = <<>>
    /\ partition_string = <<>>
    /\ parsed = NotParsed

\* no model constructed, the default argument as the definition made it
NoModels ==
    /\ protected_ids = DefaultProtectedIds
    /\ id_prefix = <<>>
    /\ renamed = NoRename
    /\ renames = 0

NoMatcher == query = NoQuery

NoRun == [status |-> "idle", op |-> "none", before_operators |-> FALSE,
          result |-> Ok, ret |-> FALSE, deepest |-> 0]

\* no call in progress
NoMachine ==
    /\ stack = <<>>
    /\ run = NoRun

Idle == NoMatcher /\ NoParser /\ NoModels /\ NoMachine

NoCall == [op |-> "none", before_operators |-> FALSE, child |-> 0,
           position |-> Nothing, result |-> Ok, warned |-> 0]

Init ==
    /\ \/ tree \in Targets /\ template \in Templates
       \/ tree \in AnyTargets /\ template \in AnyTemplates
    /\ call = NoCall
    /\ before = tree
    /\ calls = 0
    /\ Idle

\* what a call leaves behind; r is its outcome
Called(op, before_operators, k, r) ==
    /\ tree' = r.tree
    /\ call' = [op |-> op, before_operators |-> before_operators, child |-> k,
                position |-> Nothing, result |-> r.result, warned |-> r.warned]
    /\ before' = tree
    /\ calls' = calls + 1
    /\ UNCHANGED template
    /\ UNCHANGED outside

\* update_from_template(tree, template, before_operators)
Update(before_operators) ==
    /\ calls < MaxCalls
    /\ Called("update_from_template", before_operators, 0,
              UpdateFromTemplate(tree, template, before_operators))

\* remove_with_template(tree, template)
Remove ==
    /\ calls < MaxCalls
    /\ Called("remove_with_template", FALSE, 0, RemoveWithTemplate(tree, template))

\* remove_element(root, c), c the k-th top-level element of the template
RemoveOne(k) ==
    /\ calls < MaxCalls
    /\ k \in 1..Len(template.kids)
    /\ Called("remove_element", FALSE, k,
              RemovalOutcome(RemoveElement(tree, template.kids[k])))

Next ==
    \/ \E b \in BOOLEAN : Update(b)
    \/ Remove
    \/ \E k \in 1..MaxTemplateNodes : RemoveOne(k)

Spec == Init /\ [][Next]_vars

\* ------------------------------------------- add_element called on its own
\* the parents and templates add_element is handed
Parents == Documents(RootHeads({"beast"}, {"1.0"}), MaxParentNodes, "old")
Additions == Documents(RootHeads({"beast"}, {"1.0"}), MaxAddedNodes, "new")

\* the position argument: None, or an index up to one past the last child
Positions == {Nothing} \cup {Some(p) : p \in 0..MaxParentNodes}

InitAdd ==
    /\ tree \in Parents
    /\ template \in Additions
    /\ call = NoCall
    /\ before = tree
    /\ calls = 0
    /\ Idle

\* add_element(root, c, position), c the k-th top-level element of the template
AddOne(k, position) ==
    /\ calls < MaxCalls
    /\ k \in 1..Len(template.kids)
    /\ tree' = AddElement(tree, template.kids[k], position)
    /\ call' = [op |-> "add_element", before_operators |-> FALSE, child |-> k,
                position |-> position, result |-> Ok, warned |-> 0]
    /\ before' = tree
    /\ calls' = calls + 1
    /\ UNCHANGED template
    /\ UNCHANGED outside

NextAdd == \E k \in 1..MaxAddedNodes : \E position \in Positions : AddOne(k, position)

SpecAdd == InitAdd /\ [][NextAdd]_vars

\* ------------------------------------------------ the matcher on its own
\* attribute sets of the childless elements the matcher is handed
FlatHeads ==
    { [tag |-> "a", attrib |-> Attrib("x", None, None, None)],
      [tag |-> "a", attrib |-> Attrib(None, "x", None, None)],
      [tag |-> "a", attrib |-> Attrib(None, None, "x", None)],
      [tag |-> "a", attrib |-> Attrib("x", None, "y", None)],
      [tag |-> "a", attrib |-> Attrib(None, None, "y", None)],
      [tag |-> "a", attrib |-> Attrib(None, None, None, None)],
      [tag |-> "b", attrib |-> Attrib("x", None, None, None)] }

\* sequences of exactly n childless elements
RECURSIVE FlatForests(_, _)
FlatForests(n, text) ==
    IF n = 0 THEN {<<>>}
    ELSE { <<Element(h.tag, h.attrib, text, <<>>)>> \o f :
             h \in FlatHeads, f \in FlatForests(n - 1, text) }

\* attribute sets of the elements of the freely nested documents
DeepHeads ==
    { [tag |-> "a", attrib |-> Attrib("x", None, None, None)],
      [tag |-> "comment", attrib |-> Attrib(None, None, None, None)] }

\* forests of exactly n elements, nested at any depth
RECURSIVE DeepForests(_, _)
DeepTrees(n, text) ==
    IF n = 0 THEN {}
    ELSE { Element(h.tag, h.attrib, text, kids) :
             h \in DeepHeads, kids \in DeepForests(n - 1, text) }
DeepForests(n, text) ==
    IF n = 0 THEN {<<>>}
    ELSE UNION { { <<t>> \o f : t \in DeepTrees(k, text),
                                f \in DeepForests(n - k, text) } : k \in 1..n }

\* a parent with childless children and one childless template element
FlatParents ==
    { Root("beast", "1.0", kids) :
        kids \in UNION { FlatForests(n, "old") : n \in 0..MaxFlatChildren } }
FlatTemplates == { Root("beast", "1.0", kids) : kids \in FlatForests(1, "new") }

\* freely nested parents and templates
DeepParents ==
    { Root("beast", "1.0", kids) :
        kids \in UNION { DeepForests(n, "old") : n \in 0..MaxDeepNodes } }
DeepTemplates ==
    { Root("beast", "1.0", kids) :
        kids \in UNION { DeepForests(n, "new") : n \in 0..MaxDeepNodes } }

InitMatch ==
    /\ \/ tree \in FlatParents /\ template \in FlatTemplates
       \/ tree \in DeepParents /\ template \in DeepTemplates
    /\ call = NoCall
    /\ before = tree
    /\ calls = 0
    /\ Idle

\* the parent argument: the root (0) or its p-th element
ParentAt(p) == IF p = 0 THEN tree ELSE tree.kids[p]

\* a variant that takes the children out of the template as it walks them
QueriedConsuming(parent_tree, template_tree) ==
    /\ tree' = parent_tree
    /\ template' = [template_tree EXCEPT !.kids = <<>>]
    /\ UNCHANGED <<call, before, calls, parser, models, machine>>

\* what the matcher functions do to the documents they are handed: they read
\* tags, attributes and child lists, and change nothing
Queried(parent_tree, template_tree) ==
    /\ tree' = parent_tree
    /\ template' = template_tree
    /\ UNCHANGED <<call, before, calls, parser, models, machine>>

\* _find_candidate_matches(parent, t), t the k-th top-level element of the
\* template
Find(p, k) ==
    /\ query = NoQuery
    /\ p \in 0..Len(tree.kids)
    /\ k \in 1..Len(template.kids)
    /\ query' = [op |-> "_find_candidate_matches", parent |-> p, child |-> k,
                 top_level |-> FALSE,
                 candidates |-> FindCandidateMatches(ParentAt(p), template.kids[k]),
                 matched |-> FALSE]
    /\ Queried(tree, template)

\* _match_subtrees(parent, t, top_level)
Match(p, k, top_level) ==
    /\ query = NoQuery
    /\ p \in 0..Len(tree.kids)
    /\ k \in 1..Len(template.kids)
    /\ query' = [op |-> "_match_subtrees", parent |-> p, child |-> k,
                 top_level |-> top_level, candidates |-> <<>>,
                 matched |-> MatchSubtrees(ParentAt(p), template.kids[k], top_level)]
    /\ Queried(tree, template)

NextMatch ==
    \E p \in 0..(MaxFlatChildren + MaxDeepNodes) : \E k \in 1..MaxDeepNodes :
        \/ Find(p, k)
        \/ \E top_level \in BOOLEAN : Match(p, k, top_level)

SpecMatch == InitMatch /\ [][NextMatch]_vars

\* ------------------------------- remove_element on freely nested documents
InitDeep ==
    /\ tree \in DeepParents
    /\ template \in DeepTemplates
    /\ call = NoCall
    /\ before = tree
    /\ calls = 0
    /\ Idle

NextDeep == \E k \in 1..MaxDeepNodes : RemoveOne(k)

SpecDeep == InitDeep /\ [][NextDeep]_vars

\* ------------------------------ the engine on targets with told-apart elements
\* the text of the n-th element of a parsed target, in document order
Label(n) == ToString(n)

\* the elements of a forest given the texts n, n + 1, ... in document order;
\* next is the first number not used
RECURSIVE LabelForest(_, _)
LabelJoin(element, below, rest) ==
    [kids |-> <<[element EXCEPT !.kids = below.kids]>> \o rest.kids,
     next |-> rest.next]
LabelRest(element, below, rest) ==
    LabelJoin(element, below, LabelForest(rest, below.next))
LabelForest(children, n) ==
    IF Len(children) = 0 THEN [kids |-> <<>>, next |-> n]
    ELSE LabelRest([Head(children) EXCEPT !.text = Label(n)],
                   LabelForest(Head(children).kids, n + 1), Tail(children))

\* the targets, every element with a text of its own
LabelledTargets == { [t EXCEPT !.kids = LabelForest(t.kids, 1).kids] : t \in Targets }

InitOrder ==
    /\ tree \in LabelledTargets
    /\ template \in Templates
    /\ call = NoCall
    /\ before = tree
    /\ calls = 0
    /\ Idle

\* the two entry points of the engine
NextOrder ==
    \/ \E b \in BOOLEAN : Update(b)
    \/ Remove

SpecOrder == InitOrder /\ [][NextOrder]_vars

\* ------------------------------------------------- the partition string parser
\* no document handed to the engine
NoEngine ==
    /\ tree = Root("beast", "1.0", <<>>)
    /\ template = Root("beast", "1.0", <<>>)
    /\ call = NoCall
    /\ before = tree
    /\ calls = 0

InitPartition ==
    /\ NoEngine
    /\ NoMatcher
    /\ NoMachine
    /\ NoModels
    /\ partition \in UNION { Partitions(n) : n \in 1..MaxComponents }
    /\ partition_string = PartitionString(partition)
    /\ parsed = NotParsed

\* _parse_partition_string(partition_string)
Parse ==
    /\ ~parsed.done
    /\ parsed' = ParsePartitionString(partition_string)
    /\ UNCHANGED <<partition, partition_string>>
    /\ UNCHANGED <<tree, template, call, before, calls, query, models, machine>>

NextPartition == Parse

SpecPartition == InitPartition /\ [][NextPartition]_vars

\* ------------------------------------------------------- the model names
InitNames ==
    /\ NoEngine
    /\ NoMatcher
    /\ NoMachine
    /\ NoParser
    /\ protected_ids = DefaultProtectedIds
    /\ id_prefix \in [1..MaxModels -> Prefixes]
    /\ renamed = NoRename
    /\ renames = 0

\* what a top-level call leaves behind; r is the outcome of its walk
UpdatedModelName(m, model_tree, name_prefix, r) ==
    /\ protected_ids' = r.protected_ids
    /\ id_prefix' = [id_prefix EXCEPT ![m] = name_prefix]
    /\ renamed' = [model |-> m, name_prefix |-> name_prefix, id_prefix |-> id_prefix[m],
                   model_tree |-> model_tree,
                   result |-> [model_tree EXCEPT !.kids = r.kids]]
    /\ renames' = renames + 1
    /\ UNCHANGED <<tree, template, call, before, calls, query, parser, machine>>

\* model m calls self.update_model_name(model_tree, name_prefix), with the
\* default protected_ids
RenameModel(m, model_tree, name_prefix) ==
    /\ renames < MaxRenames
    /\ UpdatedModelName(m, model_tree, name_prefix,
                        UpdateModelName(model_tree, name_prefix, id_prefix[m],
                                        protected_ids))

NextNames ==
    \E m \in 1..MaxModels : \E model_tree \in ModelTrees : \E name_prefix \in Prefixes :
        RenameModel(m, model_tree, name_prefix)

SpecNames == InitNames /\ [][NextNames]_vars

\* ------------------------------------------- the engine followed step by step
\* The recursion of add_element, remove_element and _match_subtrees with its
\* call stack spelled out. A frame holds the arguments and locals of one call:
\* path and tpath lead from the roots of tree and template to its parent and
\* template arguments; pc is where the call stands.
RECURSIVE ElementAt(_, _)
ElementAt(root, path) ==
    IF Len(path) = 0 THEN root ELSE ElementAt(root.kids[Head(path)], Tail(path))

\* the tree after the element at the path was changed in place
RECURSIVE ReplacedAt(_, _, _)
ReplacedAt(root, path, element) ==
    IF Len(path) = 0 THEN element
    ELSE [root EXCEPT !.kids[Head(path)] =
             ReplacedAt(root.kids[Head(path)], Tail(path), element)]

Frame(fn, path, tpath, position, top_level) ==
    [fn |-> fn, pc |-> "enter", path |-> path, tpath |-> tpath,
     position |-> position, top_level |-> top_level,
     candidates |-> <<>>, at |-> 0, k |-> 1, original |-> 0]

Top(frames) == frames[Len(frames)]
SetTop(frames, frame) == [frames EXCEPT ![Len(frames)] = frame]
Push(frames, frame) == Append(frames, frame)

\* a variant that leaves the frame of the returning call on the stack
PopNothing(frames) == frames

\* the frame of a call goes when the call returns
Pop(frames) == SubSeq(frames, 1, Len(frames) - 1)

\* the caller moves on to `frame` and the callee starts
Calling(frame, callee) == Push(SetTop(stack, frame), callee)

\* the number of calls of a function in progress
FramesOf(frames, fn) == Cardinality({k \in 1..Len(frames) : frames[k].fn = fn})

RecursiveFunctions == {"add_element", "remove_element", "_match_subtrees"}

\* the deepest recursion of one function among the frames
Deepest(frames) ==
    CHOOSE d \in 0..Len(frames) :
        /\ \A fn \in RecursiveFunctions : FramesOf(frames, fn) <= d
        /\ d = 0 \/ \E fn \in RecursiveFunctions : FramesOf(frames, fn) = d

Running == run.status = "running"

\* one step was taken: the stack and the tree as it left them, the value it
\* returned if it was a return of _match_subtrees; the entry point returns
\* when its frame goes
Stepped(frames, root, ret) ==
    /\ stack' = frames
    /\ tree' = root
    /\ run' = [run EXCEPT
                  !.status = IF Len(frames) = 0 THEN "returned" ELSE "running",
                  !.ret = ret,
                  !.deepest = IF Deepest(frames) > @ THEN Deepest(frames) ELSE @]
    /\ UNCHANGED <<template, call, before, calls, query, parser, models>>

\* the step raised: the exception unwinds every frame, the tree stays as the
\* steps so far left it
Raising(error) ==
    /\ stack' = <<>>
    /\ run' = [run EXCEPT !.status = "raised", !.result = error]
    /\ UNCHANGED <<tree, template, call, before, calls, query, parser, models>>

\* documents of the calls followed step by step
RunTargets ==
    { Root("beast", "1.0", kids) :
        kids \in UNION { DeepForests(n, "old") : n \in 0..MaxRunNodes } }
RunTemplates ==
    { Root("beast", v, kids) :
        v \in {"1.0", "2.0"},
        kids \in UNION { DeepForests(n, "new") : n \in 0..MaxRunNodes } }

InitRun ==
    /\ tree \in RunTargets
    /\ template \in RunTemplates
    /\ call = NoCall
    /\ before = tree
    /\ calls = 0
    /\ Idle

\* update_from_template or remove_with_template is called: _prepare_template,
\* then the body starts
Start(op, before_operators) ==
    /\ run.status = "idle"
    /\ before' = tree
    /\ IF PrepareTemplate(tree, template) # Ok
       THEN /\ stack' = <<>>
            /\ run' = [run EXCEPT !.status = "raised", !.op = op,
                                  !.before_operators = before_operators,
                                  !.result = FormatError]
       ELSE /\ stack' = <<Frame(op, <<>>, <<>>, Nothing, FALSE)>>
            /\ run' = [run EXCEPT !.status = "running", !.op = op,
                                  !.before_operators = before_operators]
    /\ UNCHANGED <<tree, template, call, calls, query, parser, models>>

\* a step of the body of update_from_template
StepUpdate ==
    LET f == Top(stack)
        template_children == template.kids
    IN
    /\ Running
    /\ f.fn = "update_from_template"
    /\ CASE f.pc = "enter" ->
              IF \/ run.before_operators
                 \/ FirstOperators(template_children) < Len(template_children)
              THEN Stepped(SetTop(stack, [f EXCEPT !.pc = "before", !.k = 0,
                                                   !.position = AnchorPosition(tree)]),
                           tree, FALSE)
              ELSE Raising(UnboundLocalError)
         [] f.pc = "before" ->
              IF f.k >= FirstOperators(template_children)
              THEN IF LoopIndex(template_children) = Nothing
                   THEN Raising(UnboundLocalError)
                   ELSE Stepped(SetTop(stack, [f EXCEPT !.pc = "remaining",
                                                 !.k = LoopIndex(template_children)[1]]),
                                tree, FALSE)
              ELSE IF f.position = Nothing THEN Raising(UnboundLocalError)
              ELSE Stepped(Calling([f EXCEPT !.k = f.k + 1,
                                             !.position = Some(f.position[1] + 1)],
                                   Frame("add_element", <<>>, <<f.k + 1>>, f.position, FALSE)),
                           tree, FALSE)
         [] f.pc = "remaining" ->
              IF f.k >= Len(template_children) THEN Stepped(Pop(stack), tree, FALSE)
              ELSE Stepped(Calling([f EXCEPT !.k = f.k + 1],
                                   Frame("add_element", <<>>, <<f.k + 1>>, Nothing, FALSE)),
                           tree, FALSE)

\* a step of the loop of remove_with_template
StepRemoveWith ==
    LET f == Top(stack) IN
    /\ Running
    /\ f.fn = "remove_with_template"
    /\ IF f.k > Len(template.kids) THEN Stepped(Pop(stack), tree, FALSE)
       ELSE Stepped(Calling([f EXCEPT !.k = f.k + 1],
                            Frame("remove_element", <<>>, <<f.k>>, Nothing, FALSE)),
                    tree, FALSE)

\* a step of add_element(parent, template, position)
StepAdd ==
    LET f == Top(stack)
        parent == ElementAt(tree, f.path)
        t == ElementAt(template, f.tpath)
    IN
    /\ Running
    /\ f.fn = "add_element"
    /\ CASE f.pc = "enter" ->
              IF ExistingElement(parent, t) = 0
              THEN Stepped(SetTop(stack, [f EXCEPT !.pc = "children",
                                            !.at = InsertedAt(parent, f.position)]),
                           ReplacedAt(tree, f.path,
                                      InsertChild(parent, f.position, MakeElement(t))),
                           FALSE)
              ELSE Stepped(SetTop(stack, [f EXCEPT !.pc = "children",
                                            !.at = ExistingElement(parent, t)]),
                           tree, FALSE)
         [] f.pc = "children" ->
              IF f.k > Len(t.kids) THEN Stepped(Pop(stack), tree, FALSE)
              ELSE Stepped(Calling([f EXCEPT !.k = f.k + 1],
                                   Frame("add_element", Append(f.path, f.at),
                                         Append(f.tpath, f.k), Nothing, FALSE)),
                           tree, FALSE)

\* a step of remove_element(parent, template)
StepRemove ==
    LET f == Top(stack)
        parent == ElementAt(tree, f.path)
        t == ElementAt(template, f.tpath)
    IN
    /\ Running
    /\ f.fn = "remove_element"
    /\ CASE f.pc = "enter" ->
              IF Len(FindCandidateMatches(parent, t)) = 0 THEN Raising(RemovalError)
              ELSE IF Len(t.kids) = 0
              THEN Stepped(Pop(stack),
                           ReplacedAt(tree, f.path,
                               RemoveChild(parent,
                                   FirstCandidate(FindCandidateMatches(parent, t)))),
                           FALSE)
              ELSE Stepped(SetTop(stack, [f EXCEPT !.pc = "search",
                                            !.candidates = FindCandidateMatches(parent, t)]),
                           tree, FALSE)
         [] f.pc = "search" ->
              IF f.k > Len(f.candidates) THEN Raising(RemovalError)
              ELSE Stepped(Calling([f EXCEPT !.pc = "searched"],
                                   Frame("_match_subtrees", Append(f.path, f.candidates[f.k]),
                                         f.tpath, Nothing, TRUE)),
                           tree, FALSE)
         [] f.pc = "searched" ->
              IF run.ret
              THEN Stepped(SetTop(stack,
                               [f EXCEPT !.pc = "children", !.at = f.candidates[f.k], !.k = 1,
                                  !.original =
                                      Len(NonComment(parent.kids[f.candidates[f.k]].kids))]),
                           tree, FALSE)
              ELSE Stepped(SetTop(stack, [f EXCEPT !.pc = "search", !.k = f.k + 1]),
                           tree, FALSE)
         [] f.pc = "children" ->
              IF f.k > Len(t.kids)
              THEN IF f.original = Len(NonComment(t.kids))
                   THEN Stepped(Pop(stack),
                                ReplacedAt(tree, f.path, RemoveChild(parent, f.at)), FALSE)
                   ELSE Stepped(Pop(stack), tree, FALSE)
              ELSE IF IsComment(t.kids[f.k])
              THEN Stepped(SetTop(stack, [f EXCEPT !.k = f.k + 1]), tree, FALSE)
              ELSE Stepped(Calling([f EXCEPT !.k = f.k + 1],
                                   Frame("remove_element", Append(f.path, f.at),
                                         Append(f.tpath, f.k), Nothing, FALSE)),
                           tree, FALSE)

\* a step of _match_subtrees(parent, template, top_level); at holds the index
\* of cand below parent, 0 when cand is parent itself
StepMatch ==
    LET f == Top(stack)
        parent == ElementAt(tree, f.path)
        t == ElementAt(template, f.tpath)
    IN
    /\ Running
    /\ f.fn = "_match_subtrees"
    /\ CASE f.pc = "enter" ->
              IF Len(t.kids) = 0 THEN Stepped(Pop(stack), tree, LeafMatch(parent, t))
              ELSE IF f.top_level
              THEN Stepped(SetTop(stack, [f EXCEPT !.pc = "children", !.at = 0]), tree, FALSE)
              ELSE IF Len(FindCandidateMatches(parent, t)) = 0
              THEN Stepped(Pop(stack), tree, FALSE)
              ELSE Stepped(SetTop(stack, [f EXCEPT !.pc = "children",
                                            !.at = FindCandidateMatches(parent, t)[1]]),
                           tree, FALSE)
         [] f.pc = "children" ->
              IF f.k > Len(t.kids) THEN Stepped(Pop(stack), tree, TRUE)
              ELSE IF t.kids[f.k].tag = "comment"
              THEN Stepped(SetTop(stack, [f EXCEPT !.k = f.k + 1]), tree, FALSE)
              ELSE Stepped(Calling([f EXCEPT !.pc = "matched"],
                                   Frame("_match_subtrees",
                                         IF f.at = 0 THEN f.path ELSE Append(f.path, f.at),
                                         Append(f.tpath, f.k), Nothing, FALSE)),
                           tree, FALSE)
         [] f.pc = "matched" ->
              IF run.ret
              THEN Stepped(SetTop(stack, [f EXCEPT !.pc = "children", !.k = f.k + 1]),
                           tree, FALSE)
              ELSE Stepped(Pop(stack), tree, FALSE)

Step == StepUpdate \/ StepRemoveWith \/ StepAdd \/ StepRemove \/ StepMatch

NextRun ==
    \/ \E before_operators \in BOOLEAN : Start("update_from_template", before_operators)
    \/ Start("remove_with_template", FALSE)
    \/ Step

\* the interpreter runs a call to its end: a call in progress takes its next step
SpecRun == InitRun /\ [][NextRun]_vars /\ WF_vars(Step)

\* ---------------------------------------------------------------- properties
\* vocabulary of the claims

Updated == call.op = "update_from_template"
Removed == call.op = "remove_with_template"
RemovedOne == call.op = "remove_element"

\* the documents pass the outer tag and version check
Compatible(root, template_root) ==
    /\ root.tag = "beast"
    /\ template_root.tag = "beast"
    /\ Get(root, "version") = Get(template_root, "version")

\* the identity key of an element: id, else idref, else name, else none
KeyOf(element) ==
    IF Get(element, "id") # None THEN "id"
    ELSE IF Get(element, "idref") # None THEN "idref"
    ELSE IF Get(element, "name") # None THEN "name"
    ELSE None

\* element c is identity-equivalent to template element t
IdentityEquivalent(c, t) ==
    /\ c.tag = t.tag
    /\ KeyOf(t) # None => Get(c, KeyOf(t)) = Get(t, KeyOf(t))

\* indices of the children that are identity-equivalent to t
Equivalents(children, t) ==
    {k \in 1..Len(children) : IdentityEquivalent(children[k], t)}

\* every element of the forest carries an identity key / an id attribute
RECURSIVE AllCarryKey(_)
AllCarryKey(children) ==
    \A k \in 1..Len(children) :
        KeyOf(children[k]) # None /\ AllCarryKey(children[k].kids)

RECURSIVE AllCarryId(_)
AllCarryId(children) ==
    \A k \in 1..Len(children) :
        Get(children[k], "id") # None /\ AllCarryId(children[k].kids)

\* the sequence without its k-th element
Without(children, k) ==
    SubSeq(children, 1, k - 1) \o SubSeq(children, k + 1, Len(children))

\* the same elements, whatever their positions
SameElements(s, t) ==
    /\ Len(s) = Len(t)
    /\ \A k \in 1..Len(s) :
          Cardinality({j \in 1..Len(s) : s[j] = s[k]})
              = Cardinality({j \in 1..Len(t) : t[j] = s[k]})

\* element `new` is element `old` with nothing changed but children appended,
\* at any depth
RECURSIVE Kept(_, _)
Kept(old, new) ==
    /\ old.tag = new.tag
    /\ old.attrib = new.attrib
    /\ old.text = new.text
    /\ Len(old.kids) <= Len(new.kids)
    /\ \A k \in 1..Len(old.kids) : Kept(old.kids[k], new.kids[k])

\* the old children are all among the new ones, each kept, in their old order
RECURSIVE KeptInOrder(_, _)
KeptInOrder(olds, news) ==
    IF Len(olds) = 0 THEN TRUE
    ELSE IF Len(news) = 0 THEN FALSE
    ELSE \/ Kept(Head(olds), Head(news)) /\ KeptInOrder(Tail(olds), Tail(news))
         \/ KeptInOrder(olds, Tail(news))

\* element e was created from template element t
Made(e, t) == e.tag = t.tag /\ e.attrib = t.attrib /\ e.text = None

HasOperators(children) == \E k \in 1..Len(children) : children[k].tag = "operators"

\* C1 as stated: with a template of equal version whose elements all carry an
\* identity key (id, else idref, else name), applying update_from_template to
\* its own result yields an equal tree.
C1_IdempotentWithIdentityKeys ==
    (Updated /\ Compatible(before, template) /\ AllCarryKey(template.kids))
        => UpdateFromTemplate(tree, template, call.before_operators).tree = tree

\* C1 amended: with a template of equal version whose elements all carry an id
\* attribute, applying update_from_template to its own result yields an equal
\* tree (the second application adds no element).
C1_IdempotentWithIds ==
    (Updated /\ Compatible(before, template) /\ AllCarryId(template.kids))
        => UpdateFromTemplate(tree, template, call.before_operators).tree = tree

\* a first application that added elements, some of them nested
C1_Witness ==
    /\ Updated /\ call.result = Ok
    /\ AllCarryId(template.kids)
    /\ \E k \in 1..Len(template.kids) : Len(template.kids[k].kids) > 0
    /\ tree # before

\* C2: update_from_template keeps every element of the target: same parent,
\* tag, attributes and text, the order among siblings, and each element's
\* earlier children, to which children are only appended.
C2_NonDestructive ==
    Updated =>
        /\ tree.tag = before.tag
        /\ tree.attrib = before.attrib
        /\ tree.text = before.text
        /\ KeptInOrder(before.kids, tree.kids)

\* an element of the target was reused and gained a child, and a new element
\* was put in front of an old one
C2_Witness ==
    /\ Updated /\ call.result = Ok
    /\ \E k \in 1..Len(tree.kids) :
          /\ tree.kids[k].text = "old"
          /\ \E j \in 1..Len(tree.kids[k].kids) : tree.kids[k].kids[j].text = None
    /\ \E k \in 1..Len(tree.kids) : \E j \in 1..Len(tree.kids) :
          k < j /\ tree.kids[k].text = None /\ tree.kids[j].text = "old"

\* C3, on the targets that hold no top-level element identity-equivalent to a
\* top-level element of the template: for a template whose elements all carry
\* an identity key, remove_with_template applied to the result of
\* update_from_template completes and leaves the top-level elements of the
\* original target.
C3_RoundTrip ==
    ( /\ Updated /\ call.result = Ok
      /\ AllCarryKey(template.kids)
      /\ \A k \in 1..Len(template.kids) : Equivalents(before.kids, template.kids[k]) = {} )
        => /\ RemoveWithTemplate(tree, template).result = Ok
           /\ SameElements(RemoveWithTemplate(tree, template).tree.kids, before.kids)

\* C4: with an outer tag other than beast on either document, or different
\* version attributes, update_from_template and remove_with_template raise
\* the format error and leave the target as it was.
C4_MismatchAborts ==
    ((Updated \/ Removed) /\ ~Compatible(before, template))
        => call.result = FormatError /\ tree = before

\* a call on documents of different versions, both with elements to merge
C4_Witness ==
    /\ Updated \/ Removed
    /\ before.tag = "beast" /\ template.tag = "beast"
    /\ Get(before, "version") # Get(template, "version")
    /\ Len(before.kids) > 0 /\ Len(template.kids) > 0
    /\ call.result = FormatError

\* the case of C5: target [A, operators, B], template [X, operators, Y] whose
\* operators element carries the id of the target's, X and Y not present in
\* the target and not sharing tag and id, before_operators = True
OrderingCase ==
    /\ Updated /\ call.before_operators /\ Compatible(before, template)
    /\ Len(before.kids) = 3 /\ Len(template.kids) = 3
    /\ \A k \in 1..3 : before.kids[k].tag = "operators" <=> k = 2
    /\ \A k \in 1..3 : template.kids[k].tag = "operators" <=> k = 2
    /\ Get(template.kids[2], "id") # None
    /\ Get(template.kids[2], "id") = Get(before.kids[2], "id")
    /\ Equivalents(before.kids, template.kids[1]) = {}
    /\ Equivalents(before.kids, template.kids[3]) = {}
    /\ ~ /\ template.kids[1].tag = template.kids[3].tag
         /\ Get(template.kids[1], "id") = Get(template.kids[3], "id")
         /\ Get(template.kids[1], "id") # None

\* C5 as stated: the top-level order after the merge is [A, X, operators, Y, B].
C5_OrderAroundAnchor ==
    OrderingCase =>
        /\ call.result = Ok
        /\ Len(tree.kids) = 5
        /\ tree.kids[1] = before.kids[1]
        /\ Made(tree.kids[2], template.kids[1])
        /\ Kept(before.kids[2], tree.kids[3])
        /\ Made(tree.kids[4], template.kids[3])
        /\ tree.kids[5] = before.kids[3]

\* C5 amended: the top-level order after the merge is [A, X, operators, B, Y]:
\* X is inserted just before the target's operators element, Y is appended
\* after the last top-level element.
C5_OrderBeforeAnchorThenAppend ==
    OrderingCase =>
        /\ call.result = Ok
        /\ Len(tree.kids) = 5
        /\ tree.kids[1] = before.kids[1]
        /\ Made(tree.kids[2], template.kids[1])
        /\ Kept(before.kids[2], tree.kids[3])
        /\ tree.kids[4] = before.kids[3]
        /\ Made(tree.kids[5], template.kids[3])

C5_Witness == OrderingCase /\ call.result = Ok /\ Len(tree.kids) = 5

\* the case of C6: the template holds one container with one childless child,
\* and the target one element identity-equivalent to the container
ContainerCase ==
    /\ Removed /\ Compatible(before, template)
    /\ Len(template.kids) = 1
    /\ Len(template.kids[1].kids) = 1
    /\ Len(template.kids[1].kids[1].kids) = 0
    /\ Cardinality(Equivalents(before.kids, template.kids[1])) = 1

\* the index of the matched container among the target's top-level elements
Container == CHOOSE k \in Equivalents(before.kids, template.kids[1]) : TRUE

\* C6: when the matched container has exactly the child the template names,
\* child and container are removed; when it has two children and the template
\* names one of them, that child is removed and the container stays with the
\* other.
C6_CascadingCleanup ==
    ContainerCase =>
        LET held == before.kids[Container].kids
            named == Equivalents(held, template.kids[1].kids[1])
        IN /\ (Len(held) = 1 /\ named = {1})
                => /\ call.result = Ok
                   /\ tree.kids = Without(before.kids, Container)
           /\ (Len(held) = 2 /\ Cardinality(named) = 1)
                => /\ call.result = Ok
                   /\ tree.kids = [before.kids EXCEPT ![Container].kids =
                                      Without(held, CHOOSE k \in named : TRUE)]

\* the case of C7: remove_element(root, t) with t childless
LeafRemoval == RemovedOne /\ Len(template.kids[call.child].kids) = 0

\* C7: with k >= 1 candidates among the parent's children, remove_element
\* returns, removes the first candidate in document order and nothing else,
\* and warns exactly when k > 1.
C7_RemovesFirstCandidate ==
    (LeafRemoval /\ Equivalents(before.kids, template.kids[call.child]) # {})
        => LET candidates == Equivalents(before.kids, template.kids[call.child])
               first == CHOOSE k \in candidates : \A j \in candidates : k <= j
           IN /\ call.result = Ok
              /\ tree = [before EXCEPT !.kids = Without(before.kids, first)]
              /\ call.warned = (IF Cardinality(candidates) > 1 THEN 1 ELSE 0)

\* a removal with two candidates that other elements separate
C7_Witness ==
    /\ LeafRemoval
    /\ call.warned = 1
    /\ \E k \in 1..Len(before.kids) :
          ~IdentityEquivalent(before.kids[k], template.kids[call.child])
          /\ \E i \in 1..(k - 1) : \E j \in (k + 1)..Len(before.kids) :
                {i, j} \subseteq Equivalents(before.kids, template.kids[call.child])

\* C8: on documents that pass the outer tag and version check,
\* update_from_template returns without raising, whatever before_operators.
C8_MergerOnlyRaisesFormatError ==
    (Updated /\ Compatible(before, template)) => call.result = Ok

\* C9: with a template without elements, update_from_template returns
\* normally and leaves the target as it was.
C9_EmptyTemplateIsNoOp ==
    (Updated /\ Compatible(before, template) /\ Len(template.kids) = 0)
        => call.result = Ok /\ tree = before

\* C10: with before_operators = False and no operators element in the
\* template, update_from_template appends every top-level element of the
\* template in template order.
C10_AppendsWithoutAnchor ==
    ( /\ Updated /\ Compatible(before, template)
      /\ ~call.before_operators /\ ~HasOperators(template.kids) )
        => /\ call.result = Ok
           /\ tree = AddRemaining(before, template.kids, 0)

\* the case of C11: before_operators = True and a target without an
\* operators element
NoAnchorCase ==
    /\ Updated /\ call.before_operators /\ Compatible(before, template)
    /\ ~HasOperators(before.kids)

\* the elements are made from elements of the template, in template order
RECURSIVE MadeInOrder(_, _)
MadeInOrder(news, children) ==
    IF Len(news) = 0 THEN TRUE
    ELSE IF Len(children) = 0 THEN FALSE
    ELSE \/ Made(Head(news), Head(children)) /\ MadeInOrder(Tail(news), Tail(children))
         \/ MadeInOrder(news, Tail(children))

\* C11: when the target has no operators element and before_operators is
\* true, every top-level element a call that returns has created lies after
\* all the top-level elements the target had, in template order.
C11_NewAfterOldWithoutAnchor ==
    (NoAnchorCase /\ call.result = Ok) =>
        /\ Len(tree.kids) >= Len(before.kids)
        /\ \A k \in 1..Len(before.kids) : Kept(before.kids[k], tree.kids[k])
        /\ MadeInOrder(SubSeq(tree.kids, Len(before.kids) + 1, Len(tree.kids)),
                       template.kids)

\* the target after remove_element has been applied to the first k - 1
\* top-level elements of the template in turn
RemovedUpTo(k) == RemoveChildren(before, SubSeq(template.kids, 1, k - 1), 1, 0)

\* remove_element fails for the k-th top-level element of the template, and
\* for none before it
FailsAt(k) ==
    /\ ~RemovedUpTo(k).err
    /\ RemoveElement(RemovedUpTo(k).node, template.kids[k]).err

\* the call has failed and left the target as the failed removal left it
StopsWith(failed) ==
    failed.err => call.result = RemovalError /\ tree = failed.node

\* upto is the target after the first k - 1 removals: when none of them
\* failed and the k-th does, the call stops there
StopsAfter(upto, k) ==
    ~upto.err => StopsWith(RemoveElement(upto.node, template.kids[k]))

\* C12: when remove_element fails for the k-th top-level element of the
\* template, remove_with_template fails and leaves the target as the first
\* k - 1 removals and the failed one left it: nothing is rolled back and the
\* elements after the k-th are not applied.
C12_NoRollback ==
    (Removed /\ Compatible(before, template)) =>
        \A k \in 1..Len(template.kids) : StopsAfter(RemovedUpTo(k), k)

\* the second of three removals failed after the first took an element away,
\* and the third would have found its element
C12_Witness ==
    /\ Removed /\ call.result = RemovalError
    /\ Len(template.kids) = 3
    /\ FailsAt(2)
    /\ Len(tree.kids) < Len(before.kids)
    /\ Equivalents(tree.kids, template.kids[3]) # {}

\* C13: when no child of the parent is identity-equivalent to the template
\* element, remove_element fails with the not-found error and has removed
\* nothing.
C13_NotFoundRaises ==
    (RemovedOne /\ Equivalents(before.kids, template.kids[call.child]) = {})
        => call.result = RemovalError /\ tree = before

\* a removal that found children with the element's tag, none of them
\* identity-equivalent to it
C13_Witness ==
    /\ RemovedOne
    /\ Equivalents(before.kids, template.kids[call.child]) = {}
    /\ \E k \in 1..Len(before.kids) : before.kids[k].tag = template.kids[call.child].tag
    /\ call.result = RemovalError

\* the case of C14: the template holds one childless element without an id
\* attribute, and the target elements identity-equivalent to it
NoIdRemovalCase ==
    /\ Removed /\ Compatible(before, template)
    /\ Len(template.kids) = 1
    /\ Len(template.kids[1].kids) = 0
    /\ Get(template.kids[1], "id") = None
    /\ Equivalents(before.kids, template.kids[1]) # {}

\* C14: for a template element without an id attribute, remove_with_template
\* removes all the elements with its tag from the target; in particular none
\* that is identity-equivalent to the template element is left.
C14_RemovesAllWithoutId ==
    NoIdRemovalCase =>
        /\ call.result = Ok
        /\ Equivalents(tree.kids, template.kids[1]) = {}

\* C15: remove_element ignores the elements of the removal template that it
\* cannot match: the call returns without error, and when the template element
\* itself has no match the parent is left as it was.
C15_UnmatchedIgnored ==
    RemovedOne =>
        /\ call.result = Ok
        /\ Equivalents(before.kids, template.kids[call.child]) = {} => tree = before

\* the case of C16: a call that returned, on a target with an operators
\* element, that ran the phase of adding before the anchor
AnchoredCase ==
    /\ Updated /\ Compatible(before, template) /\ call.result = Ok
    /\ HasOperators(before.kids)
    /\ call.before_operators \/ HasOperators(template.kids)

\* the k-th top-level element of the template precedes the template's
\* operators element and the call has to create an element for it: it has no
\* id, or neither the target nor an earlier element of the template has its
\* tag and id
CreatedBeforeAnchor(k) ==
    /\ k <= FirstOperators(template.kids)
    /\ \/ Get(template.kids[k], "id") = None
       \/ /\ \A j \in 1..Len(before.kids) :
                ~ /\ before.kids[j].tag = template.kids[k].tag
                  /\ Get(before.kids[j], "id") = Get(template.kids[k], "id")
          /\ \A j \in 1..(k - 1) :
                ~ /\ template.kids[j].tag = template.kids[k].tag
                  /\ Get(template.kids[j], "id") = Get(template.kids[k], "id")

\* C16: each top-level element created for a template element that precedes
\* the template's operators element lies before the target's first operators
\* element after the call, also when earlier template elements were matched
\* to elements of the target.
C16_NewStayBeforeAnchor ==
    AnchoredCase =>
        \A k \in 1..Len(template.kids) :
            CreatedBeforeAnchor(k) =>
                \E j \in 1..FirstOperators(tree.kids) : Made(tree.kids[j], template.kids[k])

\* the number of elements of a forest, at any depth
RECURSIVE Nodes(_)
Nodes(children) ==
    IF Len(children) = 0 THEN 0
    ELSE 1 + Nodes(Head(children).kids) + Nodes(Tail(children))

\* C17: one update_from_template call merges each top-level element of the
\* template once, so it creates at most one element per element of the
\* template.
C17_MergedOnce ==
    (Updated /\ Compatible(before, template) /\ call.result = Ok)
        => Nodes(tree.kids) - Nodes(before.kids) <= Nodes(template.kids)

\* vocabulary of the claims about add_element
AddedOne == call.op = "add_element"

\* indices of the children with the tag and the id attribute of t
IdHits(children, t) ==
    {k \in 1..Len(children) :
        children[k].tag = t.tag /\ Get(children[k], "id") = Get(t, "id")}

\* every child of t has a child of the element with its tag and attributes
HoldsChildrenOf(element, t) ==
    \A c \in 1..Len(t.kids) :
        \E j \in 1..Len(element.kids) :
            /\ element.kids[j].tag = t.kids[c].tag
            /\ element.kids[j].attrib = t.kids[c].attrib

\* C18 as stated: when t carries an identity key (id, else idref, else name)
\* and the parent has a child identity-equivalent to it, add_element creates
\* no new child of the parent.
C18_ReusesByIdentityKey ==
    ( /\ AddedOne
      /\ KeyOf(template.kids[call.child]) # None
      /\ Equivalents(before.kids, template.kids[call.child]) # {} )
        => Len(tree.kids) = Len(before.kids)

\* C18 amended: when t carries an id attribute and the parent has a child with
\* t's tag and id, add_element creates no new child of the parent, and a child
\* with that tag and id is the merge target: it keeps what it had and holds
\* t's children, the other children are unchanged.
C18_ReusesById ==
    ( /\ AddedOne
      /\ Get(template.kids[call.child], "id") # None
      /\ IdHits(before.kids, template.kids[call.child]) # {} )
        => /\ Len(tree.kids) = Len(before.kids)
           /\ \E k \in IdHits(before.kids, template.kids[call.child]) :
                 /\ Kept(before.kids[k], tree.kids[k])
                 /\ HoldsChildrenOf(tree.kids[k], template.kids[call.child])
                 /\ \A j \in 1..Len(before.kids) : j # k => tree.kids[j] = before.kids[j]

\* an element with children was merged into an existing one, which gained a
\* child
C18_Witness ==
    /\ AddedOne
    /\ Get(template.kids[call.child], "id") # None
    /\ IdHits(before.kids, template.kids[call.child]) # {}
    /\ Len(template.kids[call.child].kids) > 0
    /\ Len(tree.kids) = Len(before.kids)
    /\ tree # before

\* C19: for a template element without an id attribute add_element creates
\* exactly one new child of the parent, with the template's tag and
\* attributes, also when the parent has children with that tag; the other
\* children stay as and where they were.
C19_NoIdAlwaysCreates ==
    (AddedOne /\ Get(template.kids[call.child], "id") = None)
        => /\ Len(tree.kids) = Len(before.kids) + 1
           /\ \E j \in 1..Len(tree.kids) :
                 /\ Made(tree.kids[j], template.kids[call.child])
                 /\ Without(tree.kids, j) = before.kids

\* an element without id was added to a parent that had an element
\* identity-equivalent to it
C19_Witness ==
    /\ AddedOne
    /\ Get(template.kids[call.child], "id") = None
    /\ Equivalents(before.kids, template.kids[call.child]) # {}
    /\ Len(tree.kids) = Len(before.kids) + 1

\* the case of C20: the parent has several children with the tag and id of t
DuplicatesCase ==
    /\ AddedOne
    /\ Get(template.kids[call.child], "id") # None
    /\ Cardinality(IdHits(before.kids, template.kids[call.child])) > 1

\* the first duplicate in document order
FirstDuplicate ==
    CHOOSE k \in IdHits(before.kids, template.kids[call.child]) :
        \A j \in IdHits(before.kids, template.kids[call.child]) : k <= j

\* C20: when the parent has several children with t's tag and id, add_element
\* merges t's children under the first of them in document order and leaves
\* every other child, the later duplicates among them, unchanged.
C20_FirstDuplicateOnly ==
    DuplicatesCase =>
        /\ Len(tree.kids) = Len(before.kids)
        /\ Kept(before.kids[FirstDuplicate], tree.kids[FirstDuplicate])
        /\ HoldsChildrenOf(tree.kids[FirstDuplicate], template.kids[call.child])
        /\ \A j \in 1..Len(before.kids) :
              j # FirstDuplicate => tree.kids[j] = before.kids[j]

\* the first of two duplicates gained a child
C20_Witness ==
    /\ DuplicatesCase
    /\ Len(template.kids[call.child].kids) > 0
    /\ tree.kids[FirstDuplicate] # before.kids[FirstDuplicate]

\* vocabulary of the claims about the matcher
Found == query.op = "_find_candidate_matches"
Matched == query.op = "_match_subtrees"

\* the arguments of the last matcher call
QueryParent == IF query.parent = 0 THEN tree ELSE tree.kids[query.parent]
QueryTemplate == template.kids[query.child]

\* C21: _find_candidate_matches(parent, t) returns exactly the direct
\* children of parent with t's tag and, for the first of id, idref, name that
\* t carries, the same value of that attribute (every child with the tag when
\* t carries none), in document order.
C21_FindsEquivalentChildren ==
    Found =>
        /\ \A i \in 1..Len(query.candidates) : \A j \in 1..Len(query.candidates) :
              i < j => query.candidates[i] < query.candidates[j]
        /\ {query.candidates[i] : i \in 1..Len(query.candidates)}
              = Equivalents(QueryParent.kids, QueryTemplate)

\* a search that returned one of two children with the tag, for an element
\* that carries a key
C21_Witness ==
    /\ Found
    /\ KeyOf(QueryTemplate) # None
    /\ Len(query.candidates) = 1
    /\ Cardinality({k \in 1..Len(QueryParent.kids) :
                       QueryParent.kids[k].tag = QueryTemplate.tag}) = 2

\* all the non-comment children of t match below the element
AllChildrenMatch(element, t) ==
    \A c \in 1..Len(t.kids) :
        t.kids[c].tag # "comment" => MatchSubtrees(element, t.kids[c], FALSE)

\* C22: with top_level = False and a template element that has children,
\* _match_subtrees returns true exactly when some candidate of
\* _find_candidate_matches(parent, t) has all the non-comment children of t
\* matching; a failing earlier candidate does not stop a later one.
C22_AnyCandidateMatches ==
    (Matched /\ ~query.top_level /\ Len(QueryTemplate.kids) > 0) =>
        query.matched =
            \E k \in Equivalents(QueryParent.kids, QueryTemplate) :
                AllChildrenMatch(QueryParent.kids[k], QueryTemplate)

\* C23: for a childless template element t, _match_subtrees(c, t) is true
\* exactly when c is identity-equivalent to t: c has t's tag and, when t
\* carries id, idref or name, the same value of that same attribute.
C23_LeafMatchIsEquivalence ==
    (Matched /\ Len(QueryTemplate.kids) = 0) =>
        query.matched = IdentityEquivalent(QueryParent, QueryTemplate)

RemovalTemplate == template.kids[call.child]

\* the child of the root that the call chose as removal_parent, 0 when none
ChosenParent ==
    RemovalParent(before, RemovalTemplate,
                  FindCandidateMatches(before, RemovalTemplate))

\* removal_parent as the recursive removals left it
EmptiedParent ==
    RemoveChildren(before.kids[ChosenParent], NonComment(RemovalTemplate.kids), 1, 0).node

\* a call for a template element with children that returned and took
\* removal_parent out of the root
CleanupCase ==
    /\ RemovedOne
    /\ call.result = Ok
    /\ Len(RemovalTemplate.kids) > 0
    /\ Len(tree.kids) < Len(before.kids)

\* C25: remove_element removes the matched candidate of a template element
\* that has children only if, after the recursive removals, the candidate has
\* no non-comment children left; a candidate that still holds content is kept.
C25_CleanupOnlyEmptied ==
    CleanupCase => NonComment(EmptiedParent.kids) = <<>>

\* C26: whenever remove_element(parent, t) raises the not-found error, the
\* subtree under parent is as it was before the call.
C26_FailedRemovalChangesNothing ==
    (RemovedOne /\ call.result = RemovalError) => tree = before

\* vocabulary of the claim about sibling order
\* the texts of the elements below an element that came from the target
RECURSIVE TextsBelow(_)
TextsBelow(element) ==
    UNION { (IF element.kids[k].text = None THEN {} ELSE {element.kids[k].text})
            \cup TextsBelow(element.kids[k]) : k \in 1..Len(element.kids) }

\* the pairs <<s, t>> of texts of two elements that are siblings somewhere
\* below an element, s before t
RECURSIVE SiblingPairs(_)
SiblingPairs(element) ==
    { <<element.kids[p[1]].text, element.kids[p[2]].text>> :
        p \in { q \in (1..Len(element.kids)) \X (1..Len(element.kids)) : q[1] < q[2] } }
    \cup UNION { SiblingPairs(element.kids[k]) : k \in 1..Len(element.kids) }

\* C27: two elements that were siblings before a call of update_from_template
\* or remove_with_template and are both still in the tree after it are
\* siblings in the same order.
C27_SiblingOrderKept ==
    (Updated \/ Removed) =>
        \A pair \in SiblingPairs(before) :
            (pair[1] \in TextsBelow(tree) /\ pair[2] \in TextsBelow(tree))
                => pair \in SiblingPairs(tree)

\* an update put a new element in front of an old one, two old siblings
\* staying in the tree
C27_Witness ==
    /\ Updated
    /\ call.result = Ok
    /\ \E pair \in SiblingPairs(before) : pair \in SiblingPairs(tree)
    /\ \E i \in 1..Len(tree.kids) : \E j \in 1..Len(tree.kids) :
          i < j /\ tree.kids[i].text = None /\ tree.kids[j].text # None

\* vocabulary of the claim about the partition string parser
\* the columns a component denotes
Columns(c) ==
    IF c.kind = "column" THEN <<c.first>>
    ELSE IF c.kind = "range" THEN [k \in 1..(c.last - c.first + 1) |-> c.first + k - 1]
    ELSE [k \in 1..(((c.last - c.first) \div 3) + 1) |-> c.first + 3 * (k - 1)]

\* the columns of the components, one after the other
RECURSIVE AllColumns(_)
AllColumns(p) == IF Len(p) = 0 THEN <<>> ELSE Columns(p[1]) \o AllColumns(Tail(p))

\* C30: _parse_partition_string returns the columns the partition string
\* denotes: n for "n", a..b for "a-b", a, a+3, ... up to b for "a-b\3",
\* whatever the digits of b, the components' columns one after the other.
C30_ParsesColumns ==
    parsed.done => parsed = Parsed(AllColumns(partition))

\* vocabulary of the claim about update_model_name
\* the id and idref attributes of the elements below `was` that are neither
\* in `kept` nor absent read name_prefix.value below `is`
RECURSIVE RewrittenBelow(_, _, _, _)
RewrittenBelow(was, is, name_prefix, kept) ==
    \A k \in 1..Len(was.kids) :
        /\ \A a \in {"id", "idref"} :
              (Get(was.kids[k], a) # None /\ Get(was.kids[k], a) \notin kept)
                  => Get(is.kids[k], a) = name_prefix \o "." \o Get(was.kids[k], a)
        /\ RewrittenBelow(was.kids[k], is.kids[k], name_prefix, kept)

\* C29: in any sequence of update_model_name calls with the default
\* protected_ids, a call rewrites every id and idref whose value is neither
\* one of the six default protected ids nor the calling model's own prefix
\* (as it was or as the call sets it), whatever earlier calls protected.
C29_RenamingForgetsHistory ==
    renamed.model # 0 =>
        RewrittenBelow(renamed.model_tree, renamed.result, renamed.name_prefix,
                       DefaultProtectedIds \cup {renamed.id_prefix, renamed.name_prefix})

\* vocabulary of the claim about termination
Finished == run.status \in {"returned", "raised"}

\* the nesting depth of the elements below an element
RECURSIVE Height(_)
Height(element) ==
    IF Len(element.kids) = 0 THEN 0
    ELSE 1 + (CHOOSE h \in {Height(element.kids[k]) : k \in 1..Len(element.kids)} :
                 \A k \in 1..Len(element.kids) : Height(element.kids[k]) <= h)

\* no function has more calls in progress than the template is deep
WithinNesting ==
    \A fn \in RecursiveFunctions : FramesOf(stack, fn) <= Height(template)

\* what the call followed step by step came to is what the call comes to
RunAgrees ==
    Finished =>
        /\ run.op = "update_from_template" =>
              /\ tree = UpdateFromTemplate(before, template, run.before_operators).tree
              /\ run.result = UpdateFromTemplate(before, template, run.before_operators).result
        /\ run.op = "remove_with_template" =>
              /\ tree = RemoveWithTemplate(before, template).tree
              /\ run.result = RemoveWithTemplate(before, template).result

\* C28: every call of update_from_template and remove_with_template on finite
\* documents eventually returns or fails with an error, and at no time are
\* more calls of add_element, of remove_element or of _match_subtrees in
\* progress than the template is deep.
C28_TerminatesWithinNesting ==
    /\ []WithinNesting
    /\ Running ~> Finished

\* a call that returned after its recursion went as deep as a nested template
C28_Witness ==
    /\ run.status = "returned"
    /\ Height(template) >= 2
    /\ run.deepest = Height(template)

====
